---- MODULE Spec2Model ----
(***************************************************************************)
(* PROFIBUS DP communication processor PHY access library (cp_phy.py).     *)
(*                                                                         *)
(* Two state machines share this module:                                   *)
(*   SpecCodec - CpPhyMessage.getRawData / setRawData applied to frames    *)
(*               and raw buffers drawn from bounded sets;                  *)
(*   Spec      - the CpPhy engine (constructor, pollReply, __sendMessage   *)
(*               and the public send operations) against a companion       *)
(*               processor that answers commands over the SPI transport.   *)
(*                                                                         *)
(* FairSpec is Spec with weak fairness of the polling loop and of the      *)
(* companion's answer.                                                     *)
(*                                                                         *)
(* Python lists are 0-based, TLA+ sequences 1-based: data[0], data[1],     *)
(* data[2] of the source are data[1], data[2], data[3] here.               *)
(***************************************************************************)
EXTENDS Integers, Sequences, FiniteSets, TLC

VARIABLES
    \* ---- codec harness (SpecCodec) ----
    cpc,        \* position of the codec harness
    msg,        \* the CpPhyMessage being encoded: [fc, payload]
    data,       \* the raw buffer (getRawData result, possibly corrupted)
    flip,       \* the bit flipped in data: [byte, bit], or NoFlip
    origin,     \* what the decoded buffer was: "encoded", "corrupted", "raw"
    rmsg,       \* the fresh CpPhyMessage after setRawData: [fc, payload, err]
    \* ---- CpPhy engine (Spec) ----
    pc,         \* position of the caller: "start", the steps of __init__,
                \* "spin" (inside the while loop of __sendMessage), "idle"
                \* (constructed, no call running), "init_failed", "closed"
    op,         \* the public operation running or last run
    opSync,     \* whether that operation was a send with sync=True
    opArg,      \* its arguments: <<baudrate>> or the telegram (<<>> if none)
    gpio,       \* RPi.GPIO: "unset", "setup", "cleaned"
    resetLine,  \* GPIO_RESET output: "unset", "low", "high"
    spi,        \* self.spi: "none", "open", "configured", "closed"
    latch,      \* the rising-edge latch GPIO.event_detected reads and clears
    rx,         \* bytes the companion has made available to spi.readbytes,
                \* each with the id of the command it replies to
    pending,    \* ids of the commands written that the companion has not
                \* answered yet, oldest first
    nCmds,      \* number of commands written so far (the id of the last one)
    lastTx,     \* the buffer passed to the last spi.writebytes
    ret,        \* outcome of the operation: [kind, fc, payload, err]
    sendRet,    \* what __sendMessage returned to the operation
    retTag,     \* id of the command the returned frame replies to
    curCmd,     \* id of the command written by the running / last send
    cleanStart, \* no command was outstanding when that send started
    outstanding,\* commands written whose reply no pollReply has read yet
    lastRead,   \* the buffer the last pollReply read and decoded
    opWrites,   \* spi.writebytes calls made by the operation
    opReads,    \* bytes the operation got from spi.readbytes
    opChecks,   \* GPIO.event_detected calls (pollReply calls) made by it
    opEmpty,    \* those of them that found no latched edge
    overlapped  \* some command was written while an earlier command's reply
                \* had not been read yet

codecVars == <<cpc, msg, data, flip, origin, rmsg>>

hwVars == <<gpio, resetLine, spi>>
linkVars == <<latch, rx, pending, nCmds, lastTx, outstanding>>
opVars == <<op, opSync, opArg, ret, sendRet, retTag, curCmd, cleanStart, lastRead,
            opWrites, opReads, opChecks, opEmpty>>
engineVars == <<pc, hwVars, linkVars, opVars, overlapped>>

vars == <<codecVars, engineVars>>

(***************************************************************************)
(* Bounds of the model.                                                    *)
(***************************************************************************)
\* longest payload of an encoded frame
MaxLen == 2
\* longest tail (bytes after the 3-byte header) of a raw buffer
MaxRawTail == 2
\* commands written to the transport in one run (the Reset of __init__ included)
MaxCmds == 3
\* polls without a latched edge inside one synchronous send
MaxPolls == 2
\* reply frames the companion has emitted and pollReply has not read yet
MaxRx == 2

\* payload byte values of encoded frames
ByteVals == {0, 1, 127, 128, 255}
\* frame-control bytes, length bytes and tail bytes of raw buffers
RawFcVals == {0, 1, 4, 7, 8, 9, 255}
RawLenVals == {0, 1, 2, 3, 255}
RawTailVals == {0, 255}
Byte == 0..255

(***************************************************************************)
(* CpPhyMessage                                                            *)
(***************************************************************************)
RASPI_PACK_HDR_LEN == 3

RPI_PACK_NOP == 0
RPI_PACK_RESET == 1
RPI_PACK_SETCFG == 2
RPI_PACK_PB_SDR == 3
RPI_PACK_PB_SDR_REPLY == 4
RPI_PACK_PB_SDN == 5
RPI_PACK_ACK == 6
RPI_PACK_NACK == 7
RPI_PACK_FC_MAX == RPI_PACK_NACK

\* PhyError messages raised by setRawData
NoError == "none"
FrameTooSmall == "CpPhyMessage: Message too small"
ChecksumMismatch == "CpPhyMessage: Invalid checksum"
UnknownFrameControl == "CpPhyMessage: Unknown frame control"
PayloadLengthMismatch == "CpPhyMessage: Invalid payload length"

\* Python's & and ^ on non-negative integers
BitAnd(a, b) ==
    LET and[x \in Nat, y \in Nat] ==
            IF x = 0 \/ y = 0 THEN 0
            ELSE (IF x % 2 = 1 /\ y % 2 = 1 THEN 1 ELSE 0)
                 + 2 * and[x \div 2, y \div 2]
    IN  and[a, b]

BitXor(a, b) ==
    LET xor[x \in Nat, y \in Nat] ==
            IF x = 0 THEN y
            ELSE IF y = 0 THEN x
            ELSE (((x % 2) + (y % 2)) % 2) + 2 * xor[x \div 2, y \div 2]
    IN  xor[a, b]

\* Python's sum() of a list
sum(s) ==
    LET upTo[n \in 0..Len(s)] == IF n = 0 THEN 0 ELSE upTo[n - 1] + s[n]
    IN  upTo[Len(s)]

\* CpPhyMessage.__init__
CpPhyMessage(fc, payload) == [fc |-> fc, payload |-> payload]

\* CpPhyMessage.calculateChecksum
calculateChecksum(packetData) ==
    BitAnd(BitXor(sum(packetData) - BitAnd(packetData[3], 255), 255), 255)

\* getRawData that leaves the checksum placeholder in place
getRawData_NoChecksum(self) ==
    <<self.fc, Len(self.payload), 0>> \o self.payload

\* getRawData that computes the checksum before the payload is appended
getRawData_ChecksumBeforeExtend(self) ==
    LET hdr == <<self.fc, Len(self.payload), 0>>
    IN  [hdr EXCEPT ![3] = calculateChecksum(hdr)] \o self.payload

\* getRawData that counts the header in the length byte
getRawData_LenWithHeader(self) ==
    LET data0 == <<self.fc, RASPI_PACK_HDR_LEN + Len(self.payload), 0>>
                 \o self.payload
    IN  [data0 EXCEPT ![3] = calculateChecksum(data0)]

\* CpPhyMessage.getRawData
getRawData(self) ==
    LET data0 == <<self.fc, Len(self.payload), 0>> \o self.payload
    IN  [data0 EXCEPT ![3] = calculateChecksum(data0)]

\* setRawData without the checksum comparison
setRawData_NoChecksumCheck(self, d) ==
    LET fc == d[1]
        tail == SubSeq(d, RASPI_PACK_HDR_LEN + 1, Len(d))
    IN  IF fc = RPI_PACK_NOP
        THEN [fc |-> fc, payload |-> self.payload, err |-> NoError]
        ELSE IF Len(d) < RASPI_PACK_HDR_LEN
        THEN [fc |-> fc, payload |-> self.payload, err |-> FrameTooSmall]
        ELSE IF fc < 0 \/ fc > RPI_PACK_FC_MAX
        THEN [fc |-> fc, payload |-> tail, err |-> UnknownFrameControl]
        ELSE IF Len(tail) # d[2]
        THEN [fc |-> fc, payload |-> tail, err |-> PayloadLengthMismatch]
        ELSE [fc |-> fc, payload |-> tail, err |-> NoError]

\* setRawData with the payload-length check ahead of the frame-control check
setRawData_LengthFirst(self, d) ==
    LET fc == d[1]
        tail == SubSeq(d, RASPI_PACK_HDR_LEN + 1, Len(d))
    IN  IF fc = RPI_PACK_NOP
        THEN [fc |-> fc, payload |-> self.payload, err |-> NoError]
        ELSE IF Len(d) < RASPI_PACK_HDR_LEN
        THEN [fc |-> fc, payload |-> self.payload, err |-> FrameTooSmall]
        ELSE IF calculateChecksum(d) # d[3]
        THEN [fc |-> fc, payload |-> self.payload, err |-> ChecksumMismatch]
        ELSE IF Len(tail) # d[2]
        THEN [fc |-> fc, payload |-> tail, err |-> PayloadLengthMismatch]
        ELSE IF fc < 0 \/ fc > RPI_PACK_FC_MAX
        THEN [fc |-> fc, payload |-> tail, err |-> UnknownFrameControl]
        ELSE [fc |-> fc, payload |-> tail, err |-> NoError]

\* setRawData with the size check ahead of the NOP shortcut
setRawData_SizeFirst(self, d) ==
    LET fc == d[1]
        tail == SubSeq(d, RASPI_PACK_HDR_LEN + 1, Len(d))
    IN  IF Len(d) < RASPI_PACK_HDR_LEN
        THEN [fc |-> fc, payload |-> self.payload, err |-> FrameTooSmall]
        ELSE IF fc = RPI_PACK_NOP
        THEN [fc |-> fc, payload |-> self.payload, err |-> NoError]
        ELSE IF calculateChecksum(d) # d[3]
        THEN [fc |-> fc, payload |-> self.payload, err |-> ChecksumMismatch]
        ELSE IF fc < 0 \/ fc > RPI_PACK_FC_MAX
        THEN [fc |-> fc, payload |-> tail, err |-> UnknownFrameControl]
        ELSE IF Len(tail) # d[2]
        THEN [fc |-> fc, payload |-> tail, err |-> PayloadLengthMismatch]
        ELSE [fc |-> fc, payload |-> tail, err |-> NoError]

\* CpPhyMessage.setRawData: the fields of self afterwards and the error
\* raised, if any (self.fc is assigned before any check, self.payload
\* before the frame-control and length checks)
setRawData(self, d) ==
    LET fc == d[1]
        tail == SubSeq(d, RASPI_PACK_HDR_LEN + 1, Len(d))
    IN  IF fc = RPI_PACK_NOP
        THEN [fc |-> fc, payload |-> self.payload, err |-> NoError]
        ELSE IF Len(d) < RASPI_PACK_HDR_LEN
        THEN [fc |-> fc, payload |-> self.payload, err |-> FrameTooSmall]
        ELSE IF calculateChecksum(d) # d[3]
        THEN [fc |-> fc, payload |-> self.payload, err |-> ChecksumMismatch]
        ELSE IF fc < 0 \/ fc > RPI_PACK_FC_MAX
        THEN [fc |-> fc, payload |-> tail, err |-> UnknownFrameControl]
        ELSE IF Len(tail) # d[2]
        THEN [fc |-> fc, payload |-> tail, err |-> PayloadLengthMismatch]
        ELSE [fc |-> fc, payload |-> tail, err |-> NoError]

(***************************************************************************)
(* Codec harness: encode a frame, optionally flip one bit of the buffer,   *)
(* decode into a fresh CpPhyMessage(0); or decode a raw buffer.            *)
(***************************************************************************)
SeqsUpTo(S, n) == UNION {[1..k -> S] : k \in 0..n}

Frames == {CpPhyMessage(fc, p) : fc \in RPI_PACK_NOP..RPI_PACK_FC_MAX,
                                 p \in SeqsUpTo(ByteVals, MaxLen)}

RawBuffers ==
    {<<b0>> : b0 \in RawFcVals}
    \cup {<<b0, b1>> : b0 \in RawFcVals, b1 \in RawLenVals}
    \cup {<<h[1], h[2], h[3]>> \o t :
            h \in RawFcVals \X RawLenVals \X Byte,
            t \in SeqsUpTo(RawTailVals, MaxRawTail)}

NoFlip == [byte |-> 0, bit |-> 0]
FreshMessage == CpPhyMessage(RPI_PACK_NOP, <<>>)
NoResult == [fc |-> RPI_PACK_NOP, payload |-> <<>>, err |-> "undecoded"]

\* outcomes of an operation
NoReturn == [kind |-> "running", fc |-> 0, payload |-> <<>>, err |-> NoError]
ReturnNone == [kind |-> "none", fc |-> 0, payload |-> <<>>, err |-> NoError]
ReturnFrame(m) ==
    [kind |-> "frame", fc |-> m.fc, payload |-> m.payload, err |-> NoError]
Raise(e) == [kind |-> "error", fc |-> 0, payload |-> <<>>, err |-> e]

\* the engine before CpPhy.__init__ runs
EngineStart ==
    /\ pc = "start"
    /\ op = "none"
    /\ opSync = FALSE
    /\ opArg = <<>>
    /\ gpio = "unset"
    /\ resetLine = "unset"
    /\ spi = "none"
    /\ latch = FALSE
    /\ rx = <<>>
    /\ pending = <<>>
    /\ nCmds = 0
    /\ lastTx = <<>>
    /\ ret = NoReturn
    /\ sendRet = NoReturn
    /\ retTag = 0
    /\ curCmd = 0
    /\ cleanStart = FALSE
    /\ outstanding = 0
    /\ lastRead = <<>>
    /\ opWrites = 0
    /\ opReads = 0
    /\ opChecks = 0
    /\ opEmpty = 0
    /\ overlapped = FALSE

\* the codec harness at rest
CodecIdle ==
    /\ cpc = "idle"
    /\ msg = FreshMessage
    /\ data = <<>>
    /\ flip = NoFlip
    /\ origin = "none"
    /\ rmsg = NoResult

InitCodec ==
    /\ EngineStart
    /\ flip = NoFlip
    /\ origin = "none"
    /\ rmsg = NoResult
    /\ \/ /\ cpc = "constructed"
          /\ msg \in Frames
          /\ data = <<>>
       \/ /\ cpc = "raw"
          /\ msg = FreshMessage
          /\ data \in RawBuffers

\* data = message.getRawData()
Encode ==
    /\ cpc = "constructed"
    /\ data' = getRawData(msg)
    /\ cpc' = "encoded"
    /\ UNCHANGED <<msg, flip, origin, rmsg, engineVars>>

\* one bit of one byte of the encoded buffer is inverted in transit
FlipBit ==
    /\ cpc = "encoded"
    /\ \E i \in 1..Len(data), k \in 0..7 :
          /\ data' = [data EXCEPT ![i] = BitXor(@, 2^k)]
          /\ flip' = [byte |-> i, bit |-> k]
    /\ cpc' = "corrupted"
    /\ UNCHANGED <<msg, origin, rmsg, engineVars>>

\* message = CpPhyMessage(0); message.setRawData(data)
Decode ==
    /\ cpc \in {"encoded", "corrupted", "raw"}
    /\ rmsg' = setRawData(FreshMessage, data)
    /\ origin' = cpc
    /\ cpc' = "decoded"
    /\ UNCHANGED <<msg, data, flip, engineVars>>

NextCodec ==
    \/ Encode
    \/ FlipBit
    \/ Decode

SpecCodec == InitCodec /\ [][NextCodec]_vars

(***************************************************************************)
(* CpPhy                                                                   *)
(***************************************************************************)
PB_PHY_BAUD_9600 == 0
PB_PHY_BAUD_19200 == 1
PB_PHY_BAUD_45450 == 2
PB_PHY_BAUD_93750 == 3
PB_PHY_BAUD_187500 == 4
PB_PHY_BAUD_500000 == 5
PB_PHY_BAUD_1500000 == 6
PB_PHY_BAUD_3000000 == 7
PB_PHY_BAUD_6000000 == 8
PB_PHY_BAUD_12000000 == 9

\* the lookup self.baud2id[baudrate] raising KeyError
KeyError == -1

\* a baud table with two neighbouring identifiers exchanged
baud2id_Swapped(baudrate) ==
    CASE baudrate = 9600 -> PB_PHY_BAUD_9600
      [] baudrate = 19200 -> PB_PHY_BAUD_19200
      [] baudrate = 45450 -> PB_PHY_BAUD_45450
      [] baudrate = 93750 -> PB_PHY_BAUD_187500
      [] baudrate = 187500 -> PB_PHY_BAUD_93750
      [] baudrate = 500000 -> PB_PHY_BAUD_500000
      [] baudrate = 1500000 -> PB_PHY_BAUD_1500000
      [] baudrate = 3000000 -> PB_PHY_BAUD_3000000
      [] baudrate = 6000000 -> PB_PHY_BAUD_6000000
      [] baudrate = 12000000 -> PB_PHY_BAUD_12000000
      [] OTHER -> KeyError

\* CpPhy.baud2id
baud2id(baudrate) ==
    CASE baudrate = 9600 -> PB_PHY_BAUD_9600
      [] baudrate = 19200 -> PB_PHY_BAUD_19200
      [] baudrate = 45450 -> PB_PHY_BAUD_45450
      [] baudrate = 93750 -> PB_PHY_BAUD_93750
      [] baudrate = 187500 -> PB_PHY_BAUD_187500
      [] baudrate = 500000 -> PB_PHY_BAUD_500000
      [] baudrate = 1500000 -> PB_PHY_BAUD_1500000
      [] baudrate = 3000000 -> PB_PHY_BAUD_3000000
      [] baudrate = 6000000 -> PB_PHY_BAUD_6000000
      [] baudrate = 12000000 -> PB_PHY_BAUD_12000000
      [] OTHER -> KeyError

\* PhyError messages raised by CpPhy
TransportOpenError == "Failed to open SPI device"
TransportConfigError == "Failed to configure SPI device"
InvalidBaudRate == "Invalid baud-rate"

\* the bytes of a tagged byte stream
Bytes(s) == [i \in 1..Len(s) |-> s[i].b]
\* a frame of the companion as it sits in the transport, tagged with the
\* command it answers
Tagged(f, id) == [i \in 1..Len(f) |-> [b |-> f[i], tag |-> id]]
\* reply frames not read yet
UnreadFrames(s) == Cardinality({s[i].tag : i \in 1..Len(s)})

\* spi.readbytes(n): the next n bytes of the transport
readbytes(buf, n) == SubSeq(buf, 1, n)
AfterRead(buf, n) == SubSeq(buf, n + 1, Len(buf))

\* pollReply that returns the fresh CpPhyMessage(0) without decoding into it
pollReply_NoDecode(l, r) ==
    IF ~l
    THEN [out |-> ReturnNone, rx |-> r, reply |-> <<>>, tag |-> 0]
    ELSE LET hdr == readbytes(r, RASPI_PACK_HDR_LEN)
             payloadLen == BitAnd(hdr[2].b, 255)
             more == IF payloadLen # 0
                     THEN readbytes(AfterRead(r, RASPI_PACK_HDR_LEN), payloadLen)
                     ELSE <<>>
             reply == hdr \o more
         IN  [out |-> ReturnFrame(FreshMessage),
              rx |-> AfterRead(r, Len(reply)),
              reply |-> Bytes(reply),
              tag |-> hdr[1].tag]

\* pollReply that decodes the reply but leaves its bytes in the transport
pollReply_NoConsume(l, r) ==
    IF ~l
    THEN [out |-> ReturnNone, rx |-> r, reply |-> <<>>, tag |-> 0]
    ELSE LET hdr == readbytes(r, RASPI_PACK_HDR_LEN)
             payloadLen == BitAnd(hdr[2].b, 255)
             more == IF payloadLen # 0
                     THEN readbytes(AfterRead(r, RASPI_PACK_HDR_LEN), payloadLen)
                     ELSE <<>>
             reply == hdr \o more
             message == setRawData(FreshMessage, Bytes(reply))
         IN  [out |-> IF message.err = NoError
                      THEN ReturnFrame(message)
                      ELSE Raise(message.err),
              rx |-> r,
              reply |-> Bytes(reply),
              tag |-> hdr[1].tag]

\* pollReply that ignores GPIO.event_detected and reads whenever the
\* transport holds bytes
pollReply_NoLatchCheck(l, r) ==
    IF r = <<>>
    THEN [out |-> ReturnNone, rx |-> r, reply |-> <<>>, tag |-> 0]
    ELSE LET hdr == readbytes(r, RASPI_PACK_HDR_LEN)
             payloadLen == BitAnd(hdr[2].b, 255)
             more == IF payloadLen # 0
                     THEN readbytes(AfterRead(r, RASPI_PACK_HDR_LEN), payloadLen)
                     ELSE <<>>
             reply == hdr \o more
             message == setRawData(FreshMessage, Bytes(reply))
         IN  [out |-> IF message.err = NoError
                      THEN ReturnFrame(message)
                      ELSE Raise(message.err),
              rx |-> AfterRead(r, Len(reply)),
              reply |-> Bytes(reply),
              tag |-> hdr[1].tag]

\* pollReply that reads the 3-byte header only, never the payload
pollReply_HeaderOnly(l, r) ==
    IF ~l
    THEN [out |-> ReturnNone, rx |-> r, reply |-> <<>>, tag |-> 0]
    ELSE LET reply == readbytes(r, RASPI_PACK_HDR_LEN)
             message == setRawData(FreshMessage, Bytes(reply))
         IN  [out |-> IF message.err = NoError
                      THEN ReturnFrame(message)
                      ELSE Raise(message.err),
              rx |-> AfterRead(r, Len(reply)),
              reply |-> Bytes(reply),
              tag |-> reply[1].tag]

\* CpPhy.pollReply, given the latch GPIO.event_detected reads (and clears)
\* and the bytes in the transport: its outcome, the bytes left in the
\* transport, the buffer it decoded and the command that buffer answers
pollReply(l, r) ==
    IF ~l
    THEN [out |-> ReturnNone, rx |-> r, reply |-> <<>>, tag |-> 0]
    ELSE LET hdr == readbytes(r, RASPI_PACK_HDR_LEN)
             payloadLen == BitAnd(hdr[2].b, 255)
             more == IF payloadLen # 0
                     THEN readbytes(AfterRead(r, RASPI_PACK_HDR_LEN), payloadLen)
                     ELSE <<>>
             reply == hdr \o more
             message == setRawData(FreshMessage, Bytes(reply))
         IN  [out |-> IF message.err = NoError
                      THEN ReturnFrame(message)
                      ELSE Raise(message.err),
              rx |-> AfterRead(r, Len(reply)),
              reply |-> Bytes(reply),
              tag |-> hdr[1].tag]

\* a loop that catches the PhyError of pollReply and polls again
raises_Swallowed(r) == FALSE

\* __sendMessage has no handler around pollReply: a PhyError raised by
\* pollReply leaves the loop and the function
raises(r) == r.kind = "error"

\* a loop that gives up when a poll finds nothing
spinDone_GiveUp(r) == r.kind \in {"frame", "none"}

\* a loop that returns whatever the first pollReply gave
spinDone_Always(r) == TRUE

\* __sendMessage: "if reply: return reply" (a CpPhyMessage is truthy, None
\* is not)
spinDone(r) == r.kind = "frame"

\* what the public operation returns once __sendMessage has returned r:
\* profibusSetPhyConfig drops the reply and returns None
opResult(name, r) ==
    IF name = "profibusSetPhyConfig" THEN ReturnNone ELSE r

\* inputs of the public operations
BaudRates == {9600, 19200, 45450, 93750, 187500, 500000, 1500000,
              3000000, 6000000, 12000000}
BaudInputs == BaudRates \cup {0, 100, 9601}
Telegrams == {<<>>, <<16>>}

\* frames the companion may emit: ACK, an SDR reply with one byte, a NOP
\* header announcing one byte, an unknown frame control with a valid
\* checksum, an ACK with a wrong checksum
ReplyFrames == {<<6, 0, 249>>, <<4, 1, 245, 5>>, <<0, 1, 0, 9>>,
                <<9, 0, 246>>, <<6, 0, 0>>}

Init ==
    /\ EngineStart
    /\ CodecIdle

\* __init__: GPIO.setmode .. GPIO.add_event_detect, sleep
InitGpio ==
    /\ pc = "start"
    /\ gpio' = "setup"
    /\ resetLine' = "low"
    /\ latch' = FALSE
    /\ op' = "__init__"
    /\ pc' = "gpio_ready"
    /\ UNCHANGED <<spi, rx, pending, nCmds, lastTx, outstanding, opSync, opArg, ret,
                   sendRet, retTag, curCmd, cleanStart, lastRead, opWrites,
                   opReads, opChecks, opEmpty, overlapped, codecVars>>

\* __init__: SpiDev(), spi.open; an IOError becomes a PhyError, which the
\* outer handler answers with GPIO.cleanup()
InitSpiOpen ==
    /\ pc = "gpio_ready"
    /\ \E ok \in BOOLEAN :
          IF ok
          THEN /\ spi' = "open"
               /\ pc' = "spi_open"
               /\ UNCHANGED <<gpio, resetLine, latch, ret>>
          ELSE /\ gpio' = "cleaned"
               /\ resetLine' = "unset"
               /\ latch' = FALSE
               /\ ret' = Raise(TransportOpenError)
               /\ pc' = "init_failed"
               /\ UNCHANGED spi
    /\ UNCHANGED <<rx, pending, nCmds, lastTx, outstanding, op, opSync, opArg,
                   sendRet, retTag, curCmd, cleanStart, lastRead, opWrites,
                   opReads, opChecks, opEmpty, overlapped, codecVars>>

\* __init__: the spi attributes; on IOError spi.close(), then the PhyError
\* reaches the outer handler
InitSpiConfig ==
    /\ pc = "spi_open"
    /\ \E ok \in BOOLEAN :
          IF ok
          THEN /\ spi' = "configured"
               /\ pc' = "spi_configured"
               /\ UNCHANGED <<gpio, resetLine, latch, ret>>
          ELSE /\ spi' = "closed"
               /\ gpio' = "cleaned"
               /\ resetLine' = "unset"
               /\ latch' = FALSE
               /\ ret' = Raise(TransportConfigError)
               /\ pc' = "init_failed"
    /\ UNCHANGED <<rx, pending, nCmds, lastTx, outstanding, op, opSync, opArg,
                   sendRet, retTag, curCmd, cleanStart, lastRead, opWrites,
                   opReads, opChecks, opEmpty, overlapped, codecVars>>

\* __init__: GPIO.output(GPIO_RESET, HIGH), sleep
InitResetRelease ==
    /\ pc = "spi_configured"
    /\ resetLine' = "high"
    /\ pc' = "reset_released"
    /\ UNCHANGED <<gpio, spi, linkVars, opVars, overlapped, codecVars>>

\* __sendMessage that drops a latched edge (calls GPIO.event_detected)
\* before it writes
sendMessage_ClearsLatch(message, sync, name, arg) ==
    /\ nCmds < MaxCmds
    /\ lastTx' = getRawData(message)
    /\ nCmds' = nCmds + 1
    /\ pending' = Append(pending, nCmds + 1)
    /\ outstanding' = outstanding + 1
    /\ curCmd' = nCmds + 1
    /\ cleanStart' = (outstanding = 0)
    /\ op' = name
    /\ opSync' = sync
    /\ opArg' = arg
    /\ opWrites' = 1
    /\ opReads' = 0
    /\ opChecks' = 0
    /\ opEmpty' = 0
    /\ lastRead' = <<>>
    /\ retTag' = 0
    /\ IF sync
       THEN /\ pc' = "spin"
            /\ ret' = NoReturn
            /\ sendRet' = NoReturn
       ELSE /\ pc' = pc
            /\ ret' = ReturnNone
            /\ sendRet' = ReturnNone
    /\ latch' = FALSE
    /\ overlapped' = (overlapped \/ outstanding > 0)
    /\ UNCHANGED <<hwVars, rx, codecVars>>

\* __sendMessage up to the loop: encode, write, return at once when not sync
sendMessage(message, sync, name, arg) ==
    /\ nCmds < MaxCmds
    /\ lastTx' = getRawData(message)
    /\ nCmds' = nCmds + 1
    /\ pending' = Append(pending, nCmds + 1)
    /\ outstanding' = outstanding + 1
    /\ curCmd' = nCmds + 1
    /\ cleanStart' = (outstanding = 0)
    /\ op' = name
    /\ opSync' = sync
    /\ opArg' = arg
    /\ opWrites' = 1
    /\ opReads' = 0
    /\ opChecks' = 0
    /\ opEmpty' = 0
    /\ lastRead' = <<>>
    /\ retTag' = 0
    /\ IF sync
       THEN /\ pc' = "spin"
            /\ ret' = NoReturn
            /\ sendRet' = NoReturn
       ELSE /\ pc' = pc
            /\ ret' = ReturnNone
            /\ sendRet' = ReturnNone
    /\ overlapped' = (overlapped \/ outstanding > 0)
    /\ UNCHANGED <<hwVars, latch, rx, codecVars>>

\* an __init__ that issues the Reset command before it releases the reset
\* line
InitSendReset_BeforeRelease ==
    /\ pc = "spi_configured"
    /\ sendMessage(CpPhyMessage(RPI_PACK_RESET, <<>>), TRUE, "__init__", <<>>)

\* __init__: self.sendReset()
InitSendReset ==
    /\ pc = "reset_released"
    /\ sendMessage(CpPhyMessage(RPI_PACK_RESET, <<>>), TRUE, "__init__", <<>>)

\* one iteration of the while loop of __sendMessage: pollReply, return the
\* reply if there is one.  An error raised by pollReply leaves the
\* operation; inside __init__ it reaches the handler that calls
\* GPIO.cleanup() and re-raises.
SpinPoll ==
    /\ pc = "spin"
    /\ \E r \in {pollReply(latch, rx)} :
           /\ (r.out.kind = "none" => opEmpty < MaxPolls)
           /\ latch' = FALSE
           /\ rx' = r.rx
           /\ lastRead' = r.reply
           /\ opChecks' = opChecks + 1
           /\ opEmpty' = opEmpty + (IF r.out.kind = "none" THEN 1 ELSE 0)
           /\ opReads' = opReads + Len(r.reply)
           /\ outstanding' = outstanding - (IF r.reply = <<>> THEN 0 ELSE 1)
           /\ IF raises(r.out)
              THEN /\ ret' = r.out
                   /\ sendRet' = NoReturn
                   /\ retTag' = r.tag
                   /\ IF op = "__init__"
                      THEN /\ pc' = "init_failed"
                           /\ gpio' = "cleaned"
                           /\ resetLine' = "unset"
                      ELSE /\ pc' = "idle"
                           /\ UNCHANGED <<gpio, resetLine>>
              ELSE IF spinDone(r.out)
              THEN /\ ret' = opResult(op, r.out)
                   /\ sendRet' = r.out
                   /\ retTag' = r.tag
                   /\ pc' = "idle"
                   /\ UNCHANGED <<gpio, resetLine>>
              ELSE /\ pc' = "spin"
                   /\ UNCHANGED <<ret, sendRet, retTag, gpio, resetLine>>
    /\ UNCHANGED <<spi, pending, nCmds, lastTx, op, opSync, opArg, curCmd,
                   cleanStart, opWrites, overlapped, codecVars>>

\* pollReply called by the user of the engine
PollReply ==
    /\ pc = "idle"
    /\ \E r \in {pollReply(latch, rx)} :
           /\ latch' = FALSE
           /\ rx' = r.rx
           /\ lastRead' = r.reply
           /\ opChecks' = 1
           /\ opEmpty' = (IF r.out.kind = "none" THEN 1 ELSE 0)
           /\ opReads' = Len(r.reply)
           /\ outstanding' = outstanding - (IF r.reply = <<>> THEN 0 ELSE 1)
           /\ ret' = r.out
           /\ retTag' = r.tag
    /\ op' = "pollReply"
    /\ opSync' = FALSE
    /\ opArg' = <<>>
    /\ opWrites' = 0
    /\ sendRet' = NoReturn
    /\ curCmd' = 0
    /\ cleanStart' = FALSE
    /\ UNCHANGED <<pc, hwVars, pending, nCmds, lastTx, overlapped, codecVars>>

\* sendReset called by the user of the engine
SendReset ==
    /\ pc = "idle"
    /\ sendMessage(CpPhyMessage(RPI_PACK_RESET, <<>>), TRUE, "sendReset", <<>>)

\* profibusSetPhyConfig(baudrate)
ProfibusSetPhyConfig ==
    /\ pc = "idle"
    /\ \E baudrate \in BaudInputs :
          LET baudID == baud2id(baudrate)
          IN  IF baudID = KeyError
              THEN /\ ret' = Raise(InvalidBaudRate)
                   /\ sendRet' = NoReturn
                   /\ op' = "profibusSetPhyConfig"
                   /\ opSync' = FALSE
                   /\ opArg' = <<baudrate>>
                   /\ opWrites' = 0
                   /\ opReads' = 0
                   /\ opChecks' = 0
                   /\ opEmpty' = 0
                   /\ lastRead' = <<>>
                   /\ retTag' = 0
                   /\ curCmd' = 0
                   /\ cleanStart' = FALSE
                   /\ UNCHANGED <<pc, hwVars, linkVars, overlapped, codecVars>>
              ELSE sendMessage(CpPhyMessage(RPI_PACK_SETCFG, <<baudID>>),
                               TRUE, "profibusSetPhyConfig", <<baudrate>>)

\* profibusSend_SDN(telegram, sync)
ProfibusSend_SDN ==
    /\ pc = "idle"
    /\ \E telegram \in Telegrams, sync \in BOOLEAN :
          sendMessage(CpPhyMessage(RPI_PACK_PB_SDN, telegram), sync,
                      "profibusSend_SDN", telegram)

\* profibusSend_SDR(telegram, sync)
ProfibusSend_SDR ==
    /\ pc = "idle"
    /\ \E telegram \in Telegrams, sync \in BOOLEAN :
          sendMessage(CpPhyMessage(RPI_PACK_PB_SDR, telegram), sync,
                      "profibusSend_SDR", telegram)

\* cleanup()
Cleanup ==
    /\ pc = "idle"
    /\ spi' = "closed"
    /\ gpio' = "cleaned"
    /\ resetLine' = "unset"
    /\ latch' = FALSE
    /\ pc' = "closed"
    /\ op' = "cleanup"
    /\ opSync' = FALSE
    /\ opArg' = <<>>
    /\ ret' = ReturnNone
    /\ UNCHANGED <<rx, pending, nCmds, lastTx, outstanding, sendRet, retTag,
                   curCmd, cleanStart, lastRead, opWrites, opReads, opChecks,
                   opEmpty, overlapped, codecVars>>

\* the companion processor answers the oldest unanswered command: it makes
\* one reply frame available on the transport and raises the IRQ line, which
\* the armed edge detection latches
CompanionReply ==
    /\ pending # <<>>
    /\ UnreadFrames(rx) < MaxRx
    /\ \E f \in ReplyFrames : rx' = rx \o Tagged(f, Head(pending))
    /\ pending' = Tail(pending)
    /\ latch' = (gpio = "setup")
    /\ UNCHANGED <<pc, hwVars, nCmds, lastTx, outstanding, opVars, overlapped, codecVars>>

Next ==
    \/ InitGpio
    \/ InitSpiOpen
    \/ InitSpiConfig
    \/ InitResetRelease
    \/ InitSendReset
    \/ SpinPoll
    \/ PollReply
    \/ SendReset
    \/ ProfibusSetPhyConfig
    \/ ProfibusSend_SDN
    \/ ProfibusSend_SDR
    \/ Cleanup
    \/ CompanionReply

Spec == Init /\ [][Next]_vars

\* The engine with the scheduling the claims about termination assume: the
\* tight loop of __sendMessage keeps polling, and the companion eventually
\* answers a command it has received.
FairSpec ==
    /\ Init
    /\ [][Next]_vars
    /\ WF_vars(SpinPoll)
    /\ WF_vars(CompanionReply)

(***************************************************************************)
(* Properties of the codec (checked under SpecCodec).                      *)
(***************************************************************************)
DecodedFrom(o) == cpc = "decoded" /\ origin = o
DecodeErrors == {ChecksumMismatch, UnknownFrameControl, PayloadLengthMismatch}

\* C1 (as stated): decoding the buffer getRawData produced, into a fresh
\* frame, yields the same frame control and the same payload, for every frame
\* control 0..7, NOP included, and every payload.
C1_RoundTripAll ==
    DecodedFrom("encoded") =>
        /\ rmsg.err = NoError
        /\ rmsg.fc = msg.fc
        /\ rmsg.payload = msg.payload

\* C1 (amended): the round trip holds for every frame control 1..7 with any
\* payload and for NOP with the empty payload; a NOP frame with a non-empty
\* payload decodes without error to NOP with an empty payload.
C1_RoundTrip ==
    DecodedFrom("encoded") =>
        /\ rmsg.err = NoError
        /\ rmsg.fc = msg.fc
        /\ rmsg.payload = (IF msg.fc = RPI_PACK_NOP THEN <<>> ELSE msg.payload)

C1_Witness ==
    /\ DecodedFrom("encoded")
    /\ msg.fc = RPI_PACK_PB_SDR_REPLY
    /\ Len(msg.payload) = MaxLen
    /\ rmsg.payload = msg.payload
    /\ rmsg.fc = msg.fc

\* C2 (as stated): for an encoded non-NOP frame, a single bit flipped in one
\* of the first 3 bytes always makes decode fail with ChecksumMismatch,
\* UnknownFrameControl or PayloadLengthMismatch.
C2_CorruptionAlwaysDetected ==
    (DecodedFrom("corrupted") /\ msg.fc # RPI_PACK_NOP
        /\ flip.byte <= RASPI_PACK_HDR_LEN)
    => rmsg.err \in DecodeErrors

\* C2 (amended): such a flip makes decode fail with one of the three errors
\* unless it turns the frame-control byte into 0 (NOP), in which case decode
\* succeeds as a NOP frame with an empty payload.
C2_CorruptionDetected ==
    (DecodedFrom("corrupted") /\ msg.fc # RPI_PACK_NOP
        /\ flip.byte <= RASPI_PACK_HDR_LEN)
    => IF data[1] = RPI_PACK_NOP
       THEN rmsg.err = NoError /\ rmsg.fc = RPI_PACK_NOP /\ rmsg.payload = <<>>
       ELSE rmsg.err \in DecodeErrors

C2_Witness ==
    /\ DecodedFrom("corrupted")
    /\ msg.fc = RPI_PACK_PB_SDR
    /\ flip = [byte |-> 3, bit |-> 7]
    /\ rmsg.err = ChecksumMismatch

\* C8: a buffer of at least 3 bytes with a valid checksum byte, a
\* frame-control byte outside 0..7 and a length byte that differs from the
\* number of bytes after the header fails with UnknownFrameControl.
C8_Case ==
    /\ DecodedFrom("raw")
    /\ Len(data) >= RASPI_PACK_HDR_LEN
    /\ data[3] = 255 - ((sum(data) - data[3]) % 256)
    /\ data[1] \notin RPI_PACK_NOP..RPI_PACK_FC_MAX
    /\ data[2] # Len(data) - RASPI_PACK_HDR_LEN

C8_Precedence == C8_Case => rmsg.err = UnknownFrameControl

C8_Witness == C8_Case /\ data[1] = 9 /\ rmsg.err = UnknownFrameControl

\* C9: the buffer b returned by getRawData satisfies
\* calculateChecksum(b) = b[2], b[2] being the 8-bit one's complement of the
\* sum of all other bytes, in 0..255.
C9_ChecksumInvariant ==
    cpc = "encoded" =>
        /\ calculateChecksum(data) = data[3]
        /\ data[3] = 255 - ((sum(data) - data[3]) % 256)
        /\ data[3] \in 0..255

C9_Witness ==
    /\ cpc = "encoded"
    /\ sum(data) - data[3] > 255
    /\ Len(data) = RASPI_PACK_HDR_LEN + MaxLen
    /\ calculateChecksum(data) = data[3]

\* C10: a buffer whose first byte is 0 (NOP), the bare buffer [0x00]
\* included, decodes into a fresh frame without error, with frame control NOP
\* and an empty payload, whatever the remaining bytes are.
C10_NopDecode ==
    (cpc = "decoded" /\ data[1] = RPI_PACK_NOP) =>
        /\ rmsg.err = NoError
        /\ rmsg.fc = RPI_PACK_NOP
        /\ rmsg.payload = <<>>

C10_Witness ==
    /\ DecodedFrom("raw")
    /\ data = <<0>>
    /\ rmsg.err = NoError
    /\ rmsg.fc = RPI_PACK_NOP

C10_WitnessUnchecked ==
    /\ DecodedFrom("raw")
    /\ data[1] = RPI_PACK_NOP
    /\ Len(data) > RASPI_PACK_HDR_LEN
    /\ data[2] # Len(data) - RASPI_PACK_HDR_LEN
    /\ data[3] # 255 - ((sum(data) - data[3]) % 256)
    /\ rmsg.err = NoError

(***************************************************************************)
(* Properties of the engine (checked under Spec).                          *)
(***************************************************************************)
\* a synchronous send has returned a value to its caller
SyncReturned == pc = "idle" /\ opSync /\ ret.kind # "error"

\* C3: a synchronous __sendMessage whose N-th poll is the first to find a
\* latched edge calls pollReply N times (every earlier poll found nothing),
\* returns exactly the frame decoded from the bytes read on that poll, and
\* never returns None; while it spins, every poll so far found nothing.
C3_TransactionSequencing ==
    /\ SyncReturned =>
          /\ sendRet.kind = "frame"
          /\ opChecks = opEmpty + 1
          /\ Len(lastRead) >= RASPI_PACK_HDR_LEN
          /\ LET m == setRawData(FreshMessage, lastRead)
             IN  /\ m.err = NoError
                 /\ sendRet.fc = m.fc
                 /\ sendRet.payload = m.payload
    /\ pc = "spin" => (opChecks = opEmpty /\ sendRet = NoReturn)

C3_Witness ==
    /\ SyncReturned
    /\ opEmpty = MaxPolls
    /\ opChecks = MaxPolls + 1
    /\ sendRet.kind = "frame"
    /\ sendRet.fc = RPI_PACK_PB_SDR_REPLY
    /\ sendRet.payload = <<5>>

\* C4: when __init__ has failed, the GPIO resource is released and the
\* transport, if it was opened, is closed.
C4_InitCleanup ==
    pc = "init_failed" => (gpio = "cleaned" /\ spi \in {"none", "closed"})

\* C5 (as stated): the frame a synchronous send returns is the companion's
\* reply to the command that same send wrote.
C5_MatchingReplyAlways ==
    (SyncReturned /\ sendRet.kind = "frame") => retTag = curCmd

\* C5 (amended): when no command was outstanding at the start of the
\* synchronous send (every earlier command's reply had been read by a
\* pollReply), the frame it returns is the reply to the command it wrote.
C5_MatchingReply ==
    (SyncReturned /\ sendRet.kind = "frame" /\ cleanStart) => retTag = curCmd

C5_Witness ==
    /\ SyncReturned
    /\ op = "profibusSend_SDR"
    /\ sendRet.kind = "frame"
    /\ cleanStart
    /\ curCmd = MaxCmds
    /\ retTag = curCmd

\* a synchronous profibusSend_SDR has returned a frame
SdrReturned ==
    SyncReturned /\ op = "profibusSend_SDR" /\ ret.kind = "frame"

\* C6 (as stated): a synchronous profibusSend_SDR that returns, returns a
\* frame whose frame control is PB_SDR_REPLY.
C6_SdrReplyOnly == SdrReturned => ret.fc = RPI_PACK_PB_SDR_REPLY

\* C6 (amended): a synchronous profibusSend_SDR that returns, returns the
\* frame the companion delivered, unchanged: its frame control is byte 0 of
\* the header read, any value in 0..7.
C6_SdrReplyAsDelivered ==
    SdrReturned =>
        /\ ret.fc = lastRead[1]
        /\ ret.fc \in RPI_PACK_NOP..RPI_PACK_FC_MAX
        /\ ret = sendRet

C6_Witness ==
    /\ SdrReturned
    /\ lastRead = <<6, 0, 249>>
    /\ ret.fc = RPI_PACK_ACK

\* the ten supported baud rates, in the order of their identifiers 0..9
BaudTable == <<9600, 19200, 45450, 93750, 187500, 500000, 1500000,
               3000000, 6000000, 12000000>>

\* C7: for each of the ten supported baud rates profibusSetPhyConfig writes
\* exactly one frame, SET_CONFIG with the one-byte payload [id]; for any
\* other baud rate it fails with InvalidBaudRate without a transport write,
\* a transport read or a signal check.
C7_BaudTable ==
    (op = "profibusSetPhyConfig" /\ pc \in {"spin", "idle"}) =>
        IF \E i \in 1..Len(BaudTable) : <<BaudTable[i]>> = opArg
        THEN /\ opWrites = 1
             /\ Len(lastTx) = RASPI_PACK_HDR_LEN + 1
             /\ lastTx[1] = RPI_PACK_SETCFG
             /\ lastTx[2] = 1
             /\ <<BaudTable[lastTx[4] + 1]>> = opArg
             /\ ~(ret.kind = "error" /\ ret.err = InvalidBaudRate)
        ELSE /\ ret = Raise(InvalidBaudRate)
             /\ opWrites = 0
             /\ opReads = 0
             /\ opChecks = 0
             /\ pc = "idle"

C7_Witness ==
    /\ op = "profibusSetPhyConfig"
    /\ pc = "spin"
    /\ opArg = <<93750>>
    /\ lastTx = <<2, 1, 249, 3>>
    /\ opWrites = 1

C7_WitnessInvalid ==
    /\ op = "profibusSetPhyConfig"
    /\ opArg = <<100>>
    /\ ret = Raise(InvalidBaudRate)
    /\ opWrites = 0

\* a step that is one call of pollReply: by the user, or by the loop of
\* __sendMessage
PollStep == PollReply \/ SpinPoll

\* C11: when the ready signal has no latched edge, pollReply returns None
\* without raising, reads no byte from the transport, writes nothing, and
\* leaves the engine (hardware, transport content, latch, commands written)
\* as it was.
C11_PollNonBlocking ==
    [][(PollStep /\ ~latch) =>
          /\ lastRead' = <<>>
          /\ opReads' = (IF pc = "spin" THEN opReads ELSE 0)
          /\ opWrites' = (IF pc = "spin" THEN opWrites ELSE 0)
          /\ (pc = "idle" => ret' = ReturnNone)
          /\ (pc = "spin" => ret' = ret)
          /\ UNCHANGED <<pc, hwVars, latch, rx, pending, nCmds, lastTx,
                         outstanding>>]_vars

C11_Witness ==
    /\ pc = "idle"
    /\ op = "pollReply"
    /\ ret = ReturnNone
    /\ opEmpty = 1
    /\ opReads = 0
    /\ ~latch
    /\ rx # <<>>

\* C12: when the ready signal has latched an edge, pollReply takes exactly
\* 3 + L bytes from the transport, L being byte 1 of the header, and decodes
\* the header followed by those L bytes in order, for every header (NOP
\* included).
C12_PollReadsFrame ==
    [][(PollStep /\ latch) =>
          LET L == rx[2].b
              n == RASPI_PACK_HDR_LEN + L
          IN  /\ Len(rx') = Len(rx) - n
              /\ rx' = SubSeq(rx, n + 1, Len(rx))
              /\ lastRead' = [i \in 1..n |-> rx[i].b]
              /\ opReads' = (IF pc = "spin" THEN opReads ELSE 0) + n]_vars

C12_Witness ==
    /\ op = "pollReply"
    /\ lastRead = <<0, 1, 0, 9>>
    /\ opReads = 4
    /\ ret.kind = "frame"
    /\ ret.fc = RPI_PACK_NOP

\* the last pollReply of a synchronous send read a frame that does not decode
BadReplyRead ==
    /\ opSync
    /\ pc \in {"spin", "idle", "init_failed"}
    /\ lastRead # <<>>
    /\ setRawData(FreshMessage, lastRead).err # NoError

\* what C13 says of every synchronous send: the decode error of that frame
\* is what the send raised, that poll was its last, nothing more was read
\* and nothing was written again
ErrorNotRetried ==
    /\ ret = Raise(setRawData(FreshMessage, lastRead).err)
    /\ pc # "spin"
    /\ opChecks = opEmpty + 1
    /\ opReads = Len(lastRead)
    /\ opWrites = 1

\* C13 (as stated): a decode error of the frame read ends the spinning
\* synchronous send with that error, without another poll, read or write;
\* the transport stays open and the engine remains usable.
C13_ErrorLeavesEngineUsable ==
    BadReplyRead =>
        /\ ErrorNotRetried
        /\ spi = "configured"
        /\ pc = "idle"
        /\ gpio = "setup"

\* C13 (amended): as stated for a send on a constructed engine; when the
\* send is the Reset issued by __init__, the error likewise ends the send
\* unretried, but the constructor's handler releases the GPIO resource and
\* the construction fails.
C13_ErrorNotRetried ==
    BadReplyRead =>
        /\ ErrorNotRetried
        /\ IF op = "__init__"
           THEN pc = "init_failed" /\ gpio = "cleaned"
           ELSE pc = "idle" /\ gpio = "setup" /\ spi = "configured"

C13_Witness ==
    /\ BadReplyRead
    /\ op = "profibusSend_SDR"
    /\ pc = "idle"
    /\ opEmpty = MaxPolls
    /\ ret = Raise(ChecksumMismatch)
    /\ spi = "configured"

\* a step in which a send with sync=False writes its command
AsyncSendStep == nCmds' = nCmds + 1 /\ ~opSync'

\* C14: an asynchronous send writes exactly the encoded frame, once, and
\* returns None; it neither checks nor clears the ready-signal latch and
\* reads nothing, so a latched reply stays observable by the next pollReply.
C14_FireAndForget ==
    [][AsyncSendStep =>
          /\ ret' = ReturnNone
          /\ pc' = pc
          /\ opWrites' = 1
          /\ opReads' = 0
          /\ opChecks' = 0
          /\ latch' = latch
          /\ rx' = rx
          /\ Len(lastTx') = RASPI_PACK_HDR_LEN + Len(opArg')
          /\ lastTx'[1] = (IF op' = "profibusSend_SDN"
                           THEN RPI_PACK_PB_SDN ELSE RPI_PACK_PB_SDR)
          /\ lastTx'[2] = Len(opArg')
          /\ lastTx'[3] = 255 - ((sum(lastTx') - lastTx'[3]) % 256)
          /\ SubSeq(lastTx', RASPI_PACK_HDR_LEN + 1, Len(lastTx')) = opArg'
      ]_vars

C14_Witness ==
    /\ pc = "idle"
    /\ op = "profibusSend_SDN"
    /\ ~opSync
    /\ ret = ReturnNone
    /\ opWrites = 1
    /\ opChecks = 0
    /\ curCmd = nCmds
    /\ pending = <<curCmd>>
    /\ latch
    /\ rx # <<>>

C16_WireLayout ==
    [][(cpc = "constructed" /\ cpc' = "encoded")
       => /\ msg.fc \in RPI_PACK_NOP..RPI_PACK_FC_MAX
          /\ Len(data') = RASPI_PACK_HDR_LEN + Len(msg.payload)
          /\ data'[1] = msg.fc
          /\ data'[2] = Len(msg.payload)
          /\ SubSeq(data', RASPI_PACK_HDR_LEN + 1, Len(data')) = msg.payload
          /\ msg' = msg]_vars

C16_Witness ==
    /\ cpc = "encoded"
    /\ msg.fc = RPI_PACK_FC_MAX
    /\ Len(msg.payload) = MaxLen
    /\ Len(data) = RASPI_PACK_HDR_LEN + MaxLen
    /\ data[2] = MaxLen
    /\ SubSeq(data, RASPI_PACK_HDR_LEN + 1, Len(data)) = msg.payload

\* C17: in a run of __init__ nothing is written to the transport while the
\* reset line is low; the reset line goes high only with the transport
\* opened and configured; the first frame written afterwards is a RESET
\* frame with empty payload; and __init__ completes only after a reply to
\* that RESET has been read and decoded.
C17_InitOrdering ==
    /\ [](resetLine = "low" => (nCmds = 0 /\ lastTx = <<>>))
    /\ [][nCmds' # nCmds => resetLine = "high"]_vars
    /\ [][(resetLine' = "high" /\ resetLine # "high")
          => (spi = "configured" /\ spi' = "configured")]_vars
    /\ [][(nCmds = 0 /\ nCmds' # 0)
          => /\ op' = "__init__"
             /\ lastTx' = <<RPI_PACK_RESET, 0, calculateChecksum(<<RPI_PACK_RESET, 0, 0>>)>>
             /\ setRawData(FreshMessage, lastTx') =
                    [fc |-> RPI_PACK_RESET, payload |-> <<>>, err |-> NoError]]_vars
    /\ []((op = "__init__" /\ pc = "idle")
          => /\ sendRet.kind = "frame"
             /\ ret = sendRet
             /\ retTag = 1
             /\ curCmd = 1
             /\ opReads >= RASPI_PACK_HDR_LEN
             /\ Len(lastRead) = opReads
             /\ setRawData(FreshMessage, lastRead).err = NoError)

C17_Witness ==
    /\ op = "__init__"
    /\ pc = "idle"
    /\ resetLine = "high"
    /\ spi = "configured"
    /\ nCmds = 1
    /\ lastTx = <<RPI_PACK_RESET, 0, 254>>
    /\ sendRet.kind = "frame"
    /\ lastRead = <<6, 0, 249>>

\* C18 (as stated): in every sequence of sends and polls, no reply frame is
\* left unread in the transport while the latch is clear and no further
\* edge will come.
C18_NoLostReply ==
    (pc \in {"spin", "idle"} /\ pending = <<>>) => ~(rx # <<>> /\ ~latch)

\* C18 (amended): as long as no command has been written while an earlier
\* command's reply was still unread, a reply frame in the transport always
\* has its edge latched, so the next pollReply reads it.
C18_NoLostReplyOneOutstanding ==
    (pc \in {"spin", "idle"} /\ ~overlapped)
    => /\ ~(rx # <<>> /\ ~latch)
       /\ UnreadFrames(rx) <= 1
       /\ outstanding <= 1

C18_Witness ==
    /\ pc = "idle"
    /\ ~overlapped
    /\ op = "pollReply"
    /\ ret.kind = "frame"
    /\ retTag = MaxCmds
    /\ nCmds = MaxCmds
    /\ rx = <<>>
    /\ outstanding = 0

\* C19: the buffer pollReply hands to setRawData always has the 3 header
\* bytes and exactly as many bytes after them as byte 1 says, so a decode
\* through pollReply fails only with ChecksumMismatch or
\* UnknownFrameControl, never with FrameTooSmall or PayloadLengthMismatch.
C19_PollDecodeErrors ==
    /\ ret.err \notin {FrameTooSmall, PayloadLengthMismatch}
    /\ lastRead # <<>>
       => /\ Len(lastRead) >= RASPI_PACK_HDR_LEN
          /\ Len(lastRead) = RASPI_PACK_HDR_LEN + BitAnd(lastRead[2], 255)
          /\ setRawData(FreshMessage, lastRead).err
                \in {NoError, ChecksumMismatch, UnknownFrameControl}
          /\ ret.kind = "error"
             => ret.err = setRawData(FreshMessage, lastRead).err

C19_Witness ==
    /\ op = "pollReply"
    /\ ret = Raise(UnknownFrameControl)
    /\ lastRead = <<9, 0, 246>>
    /\ opReads = RASPI_PACK_HDR_LEN

====
